---- MODULE Spec2Model ----
(***************************************************************************)
(* A model of the daxe utility library's data-structure core:              *)
(*   - DSU          (include/daxe/graph.h, class DSU)                      *)
(*   - FenwickTree  (include/daxe/graph.h, class FenwickTree)              *)
(*   - Option<T>    (include/daxe/safe.h, struct Option)                   *)
(*   - Result<T, E> (include/daxe/safe.h, struct Result)                   *)
(*   - getat        (include/daxe/safe.h, safe container access)           *)
(* Each class is exercised by its own specification (SpecDSU, SpecFenwick, *)
(* SpecOption, SpecSafe): the classes share no state, so each one drives   *)
(* one instance through arbitrary call sequences and leaves the other      *)
(* instances idle.  SpecSafe builds one value of safe.h (an Option, a       *)
(* Result or a container) and runs calls on it until the process panics.   *)
(***************************************************************************)
EXTENDS Integers, Sequences, FiniteSets, TLC

VARIABLES
    parent,     \* DSU::parent   (vector<i64>, a function on 0..n-1)
    rank_,      \* DSU::rank_    (vector<i64>, a function on 0..n-1)
    part,       \* history: the abstract partition, element -> its block
    d_last,     \* history: the last DSU call, its arguments and return value
    d_pre,      \* history: parent, rank_ and part as the last DSU call found them
    d_merges,   \* history: the number of unite calls that returned true
    tree,       \* FenwickTree::tree (vector<i64>, a function on 0..n)
    n,          \* FenwickTree::n
    vals,       \* history: the logical array the updates describe
    f_oob,      \* TRUE once a Fenwick call indexed tree outside 0..n
    f_last,     \* history: the last FenwickTree call
    f_pre,      \* history: tree as the last FenwickTree call found it
    o_cur,      \* the Option value a chain of combinators has produced
    o_log,      \* history: the callable invocations of the last Option call
    o_last,     \* history: the last Option call, its receiver and result
    o_len,      \* number of combinators applied so far in the chain
    o_first,    \* history: the Option the chain started from
    o_calls,    \* history: invocations of map/then callables in the chain so far
    subject,    \* which safe.h value the program built: "option", "result", "container"
    panicked,   \* "" while the process runs, else the line panic() printed
    p_by,       \* history: the function that called panic(), "" while none has
    r_cur,      \* the Result value a chain of combinators has produced
    r_log,      \* history: the callable invocations of the last Result call
    r_last,     \* history: the last Result call, its receiver and result
    r_len,      \* number of combinators applied so far in the Result chain
    r_first_err,  \* history: whether the chain has held an Err, and the first such error
    r_late_calls, \* history: invocations of map/then callables after the chain held an Err
    g_c,        \* the container getat reads (a function on 0..size-1)
    g_last      \* history: the last getat call, its index and result

dsuVars == <<parent, rank_, part, d_last, d_pre, d_merges>>
fenVars == <<tree, n, vals, f_oob, f_last, f_pre>>
resVars == <<r_cur, r_log, r_last, r_len, r_first_err, r_late_calls>>
getVars == <<g_c, g_last>>
chainVars == <<o_cur, o_log, o_last, o_len, o_first, o_calls>>
optVars == <<o_cur, o_log, o_last, o_len, o_first, o_calls, subject, panicked, p_by, p_by,
             r_cur, r_log, r_last, r_len, r_first_err, r_late_calls, g_c, g_last>>
vars == <<parent, rank_, part, d_last, d_pre, d_merges,
          tree, n, vals, f_oob, f_last, f_pre,
          o_cur, o_log, o_last, o_len, o_first, o_calls, subject, panicked, p_by, p_by,
          r_cur, r_log, r_last, r_len, r_first_err, r_late_calls, g_c, g_last>>

(***************************************************************************)
(* Bounds of the model.                                                    *)
(***************************************************************************)
\* largest DSU size constructed
MaxDN == 4
\* largest FenwickTree size constructed
MaxFN == 4
\* largest value a logical Fenwick position may reach (they stay in 0..MaxVal)
MaxVal == 1
\* longest chain of Option combinators
MaxChain == 3
\* largest payload of the initial Option or Result
MaxPayload == 2
\* largest container getat is applied to
MaxLen == 3
\* largest element of such a container (elements are 1..MaxElem)
MaxElem == 2
\* width of the two's-complement words the model computes lowbit in
WordBits == 16

(***************************************************************************)
(* DSU                                                                     *)
(***************************************************************************)
\* parent.size()
Size(p) == Cardinality(DOMAIN p)

\* the argument values the calls are driven with: -1 and Size(p) are invalid
DArgs == -1 .. MaxDN

\* DSU::DSU(n): parent = iota, rank_ = 0
DSUInit(sz) ==
    /\ parent = [i \in 0 .. sz - 1 |-> i]
    /\ rank_ = [i \in 0 .. sz - 1 |-> 0]

\* a find that returns the parent without walking to the root
find_one_hop(p, x) ==
    IF x < 0 \/ x >= Size(p)
    THEN [ret |-> -1, parent |-> p]
    ELSE [ret |-> p[x], parent |-> p]

\* a find that walks to the root without rewriting any parent
RECURSIVE find_no_compression(_, _)
find_no_compression(p, x) ==
    IF x < 0 \/ x >= Size(p)
    THEN [ret |-> -1, parent |-> p]
    ELSE IF p[x] # x
         THEN [ret |-> find_no_compression(p, p[x]).ret, parent |-> p]
         ELSE [ret |-> x, parent |-> p]

\* a find that compresses but returns the parent it read before compressing
RECURSIVE find_returns_old_parent(_, _)
find_returns_old_parent(p, x) ==
    IF x < 0 \/ x >= Size(p)
    THEN [ret |-> -1, parent |-> p]
    ELSE IF p[x] # x
         THEN LET r == find_returns_old_parent(p, p[x])
                  q == [r.parent EXCEPT ![x] = r.ret]
              IN [ret |-> p[x], parent |-> q]
         ELSE [ret |-> p[x], parent |-> p]

\* i64 find(i64 x): the return value and the parent vector it leaves
RECURSIVE find(_, _)
find(p, x) ==
    IF x < 0 \/ x >= Size(p)
    THEN [ret |-> -1, parent |-> p]
    ELSE IF p[x] # x
         THEN LET r == find(p, p[x])
                  q == [r.parent EXCEPT ![x] = r.ret]
              IN [ret |-> q[x], parent |-> q]
         ELSE [ret |-> p[x], parent |-> p]

\* a unite that links the arguments instead of their roots
unite_links_arguments(p, r, x, y) ==
    LET fx == find(p, x)
        fy == find(fx.parent, y)
        px0 == fx.ret
        py0 == fy.ret
        p1 == fy.parent
    IN IF px0 < 0 \/ py0 < 0 \/ px0 = py0
       THEN [ret |-> FALSE, parent |-> p1, rank_ |-> r]
       ELSE LET sw == r[px0] < r[py0]
                px == IF sw THEN py0 ELSE px0
                py == IF sw THEN px0 ELSE py0
                p2 == [p1 EXCEPT ![IF sw THEN x ELSE y] = px]
                r2 == IF r[px] = r[py] THEN [r EXCEPT ![px] = r[px] + 1] ELSE r
            IN [ret |-> TRUE, parent |-> p2, rank_ |-> r2]

\* a unite that omits the px == py test
unite_no_same_set_test(p, r, x, y) ==
    LET fx == find(p, x)
        fy == find(fx.parent, y)
        px0 == fx.ret
        py0 == fy.ret
        p1 == fy.parent
    IN IF px0 < 0 \/ py0 < 0
       THEN [ret |-> FALSE, parent |-> p1, rank_ |-> r]
       ELSE LET sw == r[px0] < r[py0]
                px == IF sw THEN py0 ELSE px0
                py == IF sw THEN px0 ELSE py0
                p2 == [p1 EXCEPT ![py] = px]
                r2 == IF r[px] = r[py] THEN [r EXCEPT ![px] = r[px] + 1] ELSE r
            IN [ret |-> TRUE, parent |-> p2, rank_ |-> r2]

\* a unite that links y under x without looking for their roots
unite_no_find(p, r, x, y) ==
    IF x < 0 \/ x >= Size(p) \/ y < 0 \/ y >= Size(p) \/ x = y
    THEN [ret |-> FALSE, parent |-> p, rank_ |-> r]
    ELSE LET sw == r[x] < r[y]
             px == IF sw THEN y ELSE x
             py == IF sw THEN x ELSE y
             p2 == [p EXCEPT ![py] = px]
             r2 == IF r[px] = r[py] THEN [r EXCEPT ![px] = r[px] + 1] ELSE r
         IN [ret |-> TRUE, parent |-> p2, rank_ |-> r2]

\* a unite without the swap: root(y) always goes under root(x)
unite_no_swap(p, r, x, y) ==
    LET fx == find(p, x)
        fy == find(fx.parent, y)
        px == fx.ret
        py == fy.ret
        p1 == fy.parent
    IN IF px < 0 \/ py < 0 \/ px = py
       THEN [ret |-> FALSE, parent |-> p1, rank_ |-> r]
       ELSE LET p2 == [p1 EXCEPT ![py] = px]
                r2 == IF r[px] = r[py] THEN [r EXCEPT ![px] = r[px] + 1] ELSE r
            IN [ret |-> TRUE, parent |-> p2, rank_ |-> r2]

\* a unite that links and bumps the rank before it tests px == py
unite_tests_after_merge(p, r, x, y) ==
    LET fx == find(p, x)
        fy == find(fx.parent, y)
        px0 == fx.ret
        py0 == fy.ret
        p1 == fy.parent
    IN IF px0 < 0 \/ py0 < 0
       THEN [ret |-> FALSE, parent |-> p1, rank_ |-> r]
       ELSE LET sw == r[px0] < r[py0]
                px == IF sw THEN py0 ELSE px0
                py == IF sw THEN px0 ELSE py0
                p2 == [p1 EXCEPT ![py] = px]
                r2 == IF r[px] = r[py] THEN [r EXCEPT ![px] = r[px] + 1] ELSE r
            IN [ret |-> px0 # py0, parent |-> p2, rank_ |-> r2]

\* a unite that bumps the rank of the new root on every merge
unite_always_bumps_rank(p, r, x, y) ==
    LET fx == find(p, x)
        fy == find(fx.parent, y)
        px0 == fx.ret
        py0 == fy.ret
        p1 == fy.parent
    IN IF px0 < 0 \/ py0 < 0 \/ px0 = py0
       THEN [ret |-> FALSE, parent |-> p1, rank_ |-> r]
       ELSE LET sw == r[px0] < r[py0]
                px == IF sw THEN py0 ELSE px0
                py == IF sw THEN px0 ELSE py0
                p2 == [p1 EXCEPT ![py] = px]
                r2 == [r EXCEPT ![px] = r[px] + 1]
            IN [ret |-> TRUE, parent |-> p2, rank_ |-> r2]

\* bool unite(i64 x, i64 y)
unite(p, r, x, y) ==
    LET fx == find(p, x)
        fy == find(fx.parent, y)
        px0 == fx.ret
        py0 == fy.ret
        p1 == fy.parent
    IN IF px0 < 0 \/ py0 < 0 \/ px0 = py0
       THEN [ret |-> FALSE, parent |-> p1, rank_ |-> r]
       ELSE LET sw == r[px0] < r[py0]          \* std::swap(px, py)
                px == IF sw THEN py0 ELSE px0
                py == IF sw THEN px0 ELSE py0
                p2 == [p1 EXCEPT ![py] = px]
                r2 == IF r[px] = r[py] THEN [r EXCEPT ![px] = r[px] + 1] ELSE r
            IN [ret |-> TRUE, parent |-> p2, rank_ |-> r2]

\* a connected that forgets the validity test
connected_no_validity(p, x, y) ==
    LET fx == find(p, x)
        fy == find(fx.parent, y)
    IN [ret |-> fx.ret = fy.ret, parent |-> fy.parent]

\* bool connected(i64 x, i64 y)
connected(p, x, y) ==
    LET fx == find(p, x)
        fy == find(fx.parent, y)
        px == fx.ret
        py == fy.ret
    IN [ret |-> px >= 0 /\ py >= 0 /\ px = py, parent |-> fy.parent]

\* a loop that counts the elements whose stored parent, read before the find,
\* is the root find returns
RECURSIVE componentsLoop_counts_parent_match(_, _, _)
componentsLoop_counts_parent_match(p, i, count) ==
    IF i < Size(p)
    THEN LET f == find(p, i)
         IN componentsLoop_counts_parent_match(f.parent, i + 1,
                IF f.ret = p[i] THEN count + 1 ELSE count)
    ELSE [ret |-> count, parent |-> p]

\* the loop of components(), from index i with `count` so far
RECURSIVE componentsLoop(_, _, _)
componentsLoop(p, i, count) ==
    IF i < Size(p)
    THEN LET f == find(p, i)
         IN componentsLoop(f.parent, i + 1, IF f.ret = i THEN count + 1 ELSE count)
    ELSE [ret |-> count, parent |-> p]

\* a components that counts the elements that are not roots
components_counts_non_roots(p) ==
    LET c == componentsLoop(p, 0, 0)
    IN [ret |-> Size(p) - c.ret, parent |-> c.parent]

\* a components whose loop starts at index 1
components_starts_at_one(p) == componentsLoop(p, 1, 0)

\* i64 components()
components(p) == componentsLoop(p, 0, 0)

\* the abstract partition after merging the blocks of a and b
Merge(pt, a, b) ==
    LET u == pt[a] \cup pt[b]
    IN [e \in DOMAIN pt |-> IF e \in u THEN u ELSE pt[e]]

Valid(p, x) == x >= 0 /\ x < Size(p)

NoCall == [op |-> "new", x |-> 0, y |-> 0, retI |-> 0, retB |-> FALSE]

Pre == [parent |-> parent, rank_ |-> rank_, part |-> part]

InitDSU ==
    /\ \E sz \in 0 .. MaxDN :
          /\ DSUInit(sz)
          /\ part = [i \in 0 .. sz - 1 |-> {i}]
    /\ d_last = NoCall
    /\ d_pre = Pre
    /\ d_merges = 0

Find(x) ==
    LET f == find(parent, x)
    IN /\ parent' = f.parent
       /\ d_last' = [op |-> "find", x |-> x, y |-> 0, retI |-> f.ret, retB |-> FALSE]
       /\ d_pre' = Pre
       /\ UNCHANGED <<rank_, part, d_merges, fenVars, optVars>>

Unite(x, y) ==
    LET u == unite(parent, rank_, x, y)
    IN /\ parent' = u.parent
       /\ rank_' = u.rank_
       /\ part' = IF Valid(parent, x) /\ Valid(parent, y) THEN Merge(part, x, y) ELSE part
       /\ d_last' = [op |-> "unite", x |-> x, y |-> y, retI |-> 0, retB |-> u.ret]
       /\ d_pre' = Pre
       /\ d_merges' = d_merges + (IF u.ret THEN 1 ELSE 0)
       /\ UNCHANGED <<fenVars, optVars>>

Connected(x, y) ==
    LET c == connected(parent, x, y)
    IN /\ parent' = c.parent
       /\ d_last' = [op |-> "connected", x |-> x, y |-> y, retI |-> 0, retB |-> c.ret]
       /\ d_pre' = Pre
       /\ UNCHANGED <<rank_, part, d_merges, fenVars, optVars>>

Components ==
    LET c == components(parent)
    IN /\ parent' = c.parent
       /\ d_last' = [op |-> "components", x |-> 0, y |-> 0, retI |-> c.ret, retB |-> FALSE]
       /\ d_pre' = Pre
       /\ UNCHANGED <<rank_, part, d_merges, fenVars, optVars>>

(***************************************************************************)
(* FenwickTree                                                             *)
(***************************************************************************)
\* two's-complement negation of a word
Neg(i) == (2 ^ WordBits - i) % (2 ^ WordBits)

\* bitwise and of two words
RECURSIVE BitAnd(_, _)
BitAnd(a, b) ==
    IF a = 0 \/ b = 0
    THEN 0
    ELSE (a % 2) * (b % 2) + 2 * BitAnd(a \div 2, b \div 2)

\* i & (-i)
lowbit(i) == BitAnd(i, Neg(i))

\* a call's record before its loop runs: the tree, whether an index left the
\* vector, the loop indices the body ran with, whether the loop can never end
FStart(t) == [tree |-> t, oob |-> FALSE, steps |-> <<>>, hang |-> FALSE]

\* the same for a query, which accumulates a sum
QStart == [sum |-> 0, oob |-> FALSE, steps |-> <<>>, hang |-> FALSE]

\* tree[i] += delta; an index outside the vector is recorded, the cell skipped
AddAt(st, i, delta) ==
    IF i \in DOMAIN st.tree
    THEN [st EXCEPT !.tree[i] = @ + delta, !.steps = Append(@, i)]
    ELSE [st EXCEPT !.oob = TRUE, !.steps = Append(@, i)]

\* an update loop that stops before the last cell (i < n)
RECURSIVE updateLoop_stops_before_n(_, _, _, _)
updateLoop_stops_before_n(st, sz, i, delta) ==
    IF i < sz
    THEN updateLoop_stops_before_n(AddAt(st, i, delta), sz, i + lowbit(i), delta)
    ELSE st

\* for (++i; i <= n; i += i & (-i)) tree[i] += delta;   entered with i incremented
RECURSIVE updateLoop(_, _, _, _)
updateLoop(st, sz, i, delta) ==
    IF i <= sz
    THEN LET step == lowbit(i)
         IN IF step = 0         \* i += 0: the loop never leaves this index
            THEN [AddAt(st, i, delta) EXCEPT !.hang = TRUE]
            ELSE updateLoop(AddAt(st, i, delta), sz, i + step, delta)
    ELSE st

\* an update that clamps an out-of-range index into range, as query does
update_clamps(t, sz, i, delta) ==
    LET j == IF i < 0 THEN 0 ELSE IF i >= sz THEN sz - 1 ELSE i
    IN updateLoop(FStart(t), sz, j + 1, delta)

\* an update whose loop starts at i instead of i + 1
update_no_increment(t, sz, i, delta) ==
    IF i < 0 \/ i >= sz
    THEN FStart(t)
    ELSE updateLoop(FStart(t), sz, i, delta)

\* void update(i64 i, i64 delta)
update(t, sz, i, delta) ==
    IF i < 0 \/ i >= sz
    THEN FStart(t)
    ELSE updateLoop(FStart(t), sz, i + 1, delta)

\* sum += tree[i]; an index outside the vector is recorded, the cell skipped
ReadAt(t, acc, i) ==
    IF i \in DOMAIN t
    THEN [acc EXCEPT !.sum = @ + t[i], !.steps = Append(@, i)]
    ELSE [acc EXCEPT !.oob = TRUE, !.steps = Append(@, i)]

\* for (++i; i > 0; i -= i & (-i)) sum += tree[i];   entered with i incremented
RECURSIVE queryLoop(_, _, _)
queryLoop(t, acc, i) ==
    IF i > 0
    THEN LET step == lowbit(i)
         IN IF step = 0         \* i -= 0: the loop never leaves this index
            THEN [ReadAt(t, acc, i) EXCEPT !.hang = TRUE]
            ELSE queryLoop(t, ReadAt(t, acc, i), i - step)
    ELSE acc

\* a query that does not clamp i >= n
query_no_clamp(t, sz, i) ==
    IF i < 0
    THEN QStart
    ELSE queryLoop(t, QStart, i + 1)

\* a query that clamps i >= n to n instead of n - 1
query_clamps_to_n(t, sz, i) ==
    IF i < 0
    THEN QStart
    ELSE LET j == IF i >= sz THEN sz ELSE i
         IN queryLoop(t, QStart, j + 1)

\* i64 query(i64 i) const
query(t, sz, i) ==
    IF i < 0
    THEN QStart
    ELSE LET j == IF i >= sz THEN sz - 1 ELSE i
         IN queryLoop(t, QStart, j + 1)

\* a rangequery that subtracts query(l) instead of query(l - 1)
rangequery_subtracts_l(t, sz, l, r) ==
    IF l > r \/ r < 0 \/ l >= sz
    THEN QStart
    ELSE LET qr == query(t, sz, r)
             ql == IF l > 0 THEN query(t, sz, l) ELSE QStart
         IN [sum |-> qr.sum - ql.sum, oob |-> qr.oob \/ ql.oob,
             steps |-> qr.steps \o ql.steps, hang |-> qr.hang \/ ql.hang]

\* i64 rangequery(i64 l, i64 r) const
rangequery(t, sz, l, r) ==
    IF l > r \/ r < 0 \/ l >= sz
    THEN QStart
    ELSE LET qr == query(t, sz, r)
             ql == IF l > 0 THEN query(t, sz, l - 1) ELSE QStart
         IN [sum |-> qr.sum - ql.sum, oob |-> qr.oob \/ ql.oob,
             steps |-> qr.steps \o ql.steps, hang |-> qr.hang \/ ql.hang]

\* the argument values the calls are driven with
FArgs == -2 .. MaxFN
Deltas == {-2, -1, 1, 2}

FNoCall == [op |-> "new", i |-> 0, j |-> 0, delta |-> 0, ret |-> 0,
            steps |-> <<>>, hang |-> FALSE]

\* FenwickTree(size): n + 1 zero cells
InitFenwick ==
    /\ n \in 0 .. MaxFN
    /\ tree = [k \in 0 .. n |-> 0]
    /\ vals = [p \in 0 .. n - 1 |-> 0]
    /\ f_oob = FALSE
    /\ f_last = FNoCall
    /\ f_pre = tree

\* the logical array after delta is applied at position i
Apply(v, i, delta) == IF i \in DOMAIN v THEN [v EXCEPT ![i] = @ + delta] ELSE v

Update(i, delta) ==
    LET u == update(tree, n, i, delta)
        v == Apply(vals, i, delta)
    IN /\ \A p \in DOMAIN v : v[p] >= 0 /\ v[p] <= MaxVal
       /\ tree' = u.tree
       /\ f_oob' = (f_oob \/ u.oob)
       /\ vals' = v
       /\ f_last' = [op |-> "update", i |-> i, j |-> 0, delta |-> delta, ret |-> 0,
                     steps |-> u.steps, hang |-> u.hang]
       /\ f_pre' = tree
       /\ UNCHANGED <<n, dsuVars, optVars>>

Query(i) ==
    LET q == query(tree, n, i)
    IN /\ f_oob' = (f_oob \/ q.oob)
       /\ f_last' = [op |-> "query", i |-> i, j |-> 0, delta |-> 0, ret |-> q.sum,
                     steps |-> q.steps, hang |-> q.hang]
       /\ f_pre' = tree
       /\ UNCHANGED <<tree, n, vals, dsuVars, optVars>>

RangeQuery(l, r) ==
    LET q == rangequery(tree, n, l, r)
    IN /\ f_oob' = (f_oob \/ q.oob)
       /\ f_last' = [op |-> "rangequery", i |-> l, j |-> r, delta |-> 0, ret |-> q.sum,
                     steps |-> q.steps, hang |-> q.hang]
       /\ f_pre' = tree
       /\ UNCHANGED <<tree, n, vals, dsuVars, optVars>>

(***************************************************************************)
(* panic, todo, unreachable  (include/daxe/safe.h)                         *)
(***************************************************************************)
\* messages a caller hands to panic, todo, unreachable and unwrap(msg)
Msgs == {"", "boom", "custom message"}

\* the default arguments of todo() and unreachable()
TodoDefault == "not implemented"
UnreachableDefault == "entered unreachable code"

\* [[noreturn]] panic(msg): the line written to std::cerr before std::terminate()
panic(msg) == "[DAXE PANIC]: " \o msg

\* [[noreturn]] todo(msg): panic("TODO: " + msg)
todo(msg) == panic("TODO: " \o msg)

\* [[noreturn]] unreachable(msg): panic("UNREACHABLE: " + msg)
unreachable(msg) == panic("UNREACHABLE: " \o msg)

\* a call of the free function panic(msg) ends the process
Panic(msg) ==
    /\ panicked = ""
    /\ panicked' = panic(msg)
    /\ p_by' = "panic"
    /\ UNCHANGED <<dsuVars, fenVars, subject, chainVars, resVars, getVars>>

\* a call of todo(msg), or of todo() with its default message
Todo(msg) ==
    /\ panicked = ""
    /\ panicked' = todo(msg)
    /\ p_by' = "todo"
    /\ UNCHANGED <<dsuVars, fenVars, subject, chainVars, resVars, getVars>>

\* a call of unreachable(msg), or of unreachable() with its default message
Unreachable(msg) ==
    /\ panicked = ""
    /\ panicked' = unreachable(msg)
    /\ p_by' = "unreachable"
    /\ UNCHANGED <<dsuVars, fenVars, subject, chainVars, resVars, getVars>>

(***************************************************************************)
(* Option<T>  (T = int; the callables are drawn from two small families)   *)
(***************************************************************************)
\* Option(std::nullopt_t) / Option(): no value held
None == [has |-> FALSE, val |-> 0]

\* Some(value)
Some(v) == [has |-> TRUE, val |-> v]

\* bool issome() / bool isnone()
issome(o) == o.has
isnone(o) == ~o.has

\* callables int -> int handed to map
MapFs == {"double", "plus5", "negate"}
\* callables int -> Option<int> handed to then
ThenFs == {"somedouble", "someplus5", "halfifeven", "none"}

\* f(x) for a callable handed to map
CallMap(f, x) ==
    CASE f = "double" -> x * 2
      [] f = "plus5" -> x + 5
      [] f = "negate" -> 0 - x

\* f(x) for a callable handed to then
CallThen(f, x) ==
    CASE f = "somedouble" -> Some(x * 2)
      [] f = "someplus5" -> Some(x + 5)
      [] f = "halfifeven" -> IF x % 2 = 0 THEN Some(x \div 2) ELSE None
      [] f = "none" -> None

\* a map that evaluates f before looking at the receiver
Option_map_eager(o, f) ==
    LET u == CallMap(f, o.val)
    IN IF issome(o)
       THEN [res |-> Some(u), log |-> <<<<f, o.val>>>>]
       ELSE [res |-> None, log |-> <<<<f, o.val>>>>]

\* auto map(F&& f) const: the result and the invocations of f it made
Option_map(o, f) ==
    IF issome(o)
    THEN [res |-> Some(CallMap(f, o.val)), log |-> <<<<f, o.val>>>>]
    ELSE [res |-> None, log |-> <<>>]

\* a then that wraps the payload of f's result the way map does
Option_then_wraps(o, f) ==
    IF issome(o)
    THEN [res |-> Some(CallThen(f, o.val).val), log |-> <<<<f, o.val>>>>]
    ELSE [res |-> None, log |-> <<>>]

\* a then without the issome() test: f is handed whatever the storage holds
Option_then_unchecked(o, f) ==
    [res |-> CallThen(f, o.val), log |-> <<<<f, o.val>>>>]

\* auto then(F&& f) const: the result and the invocations of f it made
Option_then(o, f) ==
    IF issome(o)
    THEN [res |-> CallThen(f, o.val), log |-> <<<<f, o.val>>>>]
    ELSE [res |-> None, log |-> <<>>]

\* T unwrap() const: panics on None
Option_unwrap(o) ==
    IF isnone(o)
    THEN [panic |-> TRUE, val |-> 0]
    ELSE [panic |-> FALSE, val |-> o.val]

\* T unwrap(const char* msg) const: panics on None with the caller's message
Option_unwrap_msg(o, msg) ==
    IF isnone(o)
    THEN [panic |-> TRUE, val |-> 0, msg |-> msg]
    ELSE [panic |-> FALSE, val |-> o.val, msg |-> ""]

\* callables () -> int handed to Option::otherwise
OtherFs == {"zero", "fortytwo"}

\* f() for a callable handed to Option::otherwise
CallOther(f) ==
    CASE f = "zero" -> 0
      [] f = "fortytwo" -> 42

\* an otherwise that computes the default before looking at the receiver
Option_otherwise_eager(o, f) ==
    LET d == CallOther(f)
    IN IF issome(o)
       THEN [ret |-> o.val, log |-> <<<<f>>>>]
       ELSE [ret |-> d, log |-> <<<<f>>>>]

\* T otherwise(F&& f) const: the value returned and the invocations of f
Option_otherwise(o, f) ==
    IF issome(o)
    THEN [ret |-> o.val, log |-> <<>>]
    ELSE [ret |-> CallOther(f), log |-> <<<<f>>>>]

\* the message Option::unwrap() hands to panic
OptionUnwrapMsg == "called unwrap() on None Option"

ONoCall == [op |-> "new", f |-> "", recv |-> None, res |-> None, ret |-> 0]

InitOption ==
    /\ o_cur \in {None} \cup {Some(v) : v \in 0 .. MaxPayload}
    /\ o_log = <<>>
    /\ o_last = ONoCall
    /\ o_len = 0
    /\ o_first = o_cur
    /\ o_calls = 0

Map(f) ==
    LET m == Option_map(o_cur, f)
    IN /\ subject = "option"
       /\ panicked = ""
       /\ o_len < MaxChain
       /\ o_cur' = m.res
       /\ o_log' = m.log
       /\ o_last' = [op |-> "map", f |-> f, recv |-> o_cur, res |-> m.res, ret |-> 0]
       /\ o_len' = o_len + 1
       /\ o_calls' = o_calls + Len(m.log)
       /\ UNCHANGED <<o_first, dsuVars, fenVars, subject, panicked, p_by, resVars, getVars>>

Then(f) ==
    LET t == Option_then(o_cur, f)
    IN /\ subject = "option"
       /\ panicked = ""
       /\ o_len < MaxChain
       /\ o_cur' = t.res
       /\ o_log' = t.log
       /\ o_last' = [op |-> "then", f |-> f, recv |-> o_cur, res |-> t.res, ret |-> 0]
       /\ o_len' = o_len + 1
       /\ o_calls' = o_calls + Len(t.log)
       /\ UNCHANGED <<o_first, dsuVars, fenVars, subject, panicked, p_by, resVars, getVars>>

Otherwise(f) ==
    LET w == Option_otherwise(o_cur, f)
    IN /\ subject = "option"
       /\ panicked = ""
       /\ o_log' = w.log
       /\ o_last' = [op |-> "otherwise", f |-> f, recv |-> o_cur, res |-> o_cur, ret |-> w.ret]
       /\ UNCHANGED <<o_cur, o_len, o_first, o_calls, dsuVars, fenVars, subject, panicked, p_by, resVars, getVars>>

\* unwrap() returns the payload, or calls panic(), which ends the process
Unwrap ==
    LET u == Option_unwrap(o_cur)
    IN /\ subject = "option"
       /\ panicked = ""
       /\ panicked' = (IF u.panic THEN panic(OptionUnwrapMsg) ELSE "")
       /\ p_by' = (IF u.panic THEN "Option::unwrap" ELSE "")
       /\ o_log' = <<>>
       /\ o_last' = [op |-> "unwrap", f |-> "", recv |-> o_cur, res |-> o_cur, ret |-> u.val]
       /\ UNCHANGED <<o_cur, o_len, o_first, o_calls, dsuVars, fenVars, subject, resVars, getVars>>

\* unwrap(msg) returns the payload, or calls panic(msg), which ends the process
UnwrapMsg(msg) ==
    LET u == Option_unwrap_msg(o_cur, msg)
    IN /\ subject = "option"
       /\ panicked = ""
       /\ panicked' = (IF u.panic THEN panic(u.msg) ELSE "")
       /\ p_by' = (IF u.panic THEN "Option::unwrap(msg)" ELSE "")
       /\ o_log' = <<>>
       /\ o_last' = [op |-> "unwrap(msg)", f |-> msg, recv |-> o_cur, res |-> o_cur, ret |-> u.val]
       /\ UNCHANGED <<o_cur, o_len, o_first, o_calls, dsuVars, fenVars, subject, resVars, getVars>>

(***************************************************************************)
(* Result<T, E>  (T = int, E = str)                                        *)
(***************************************************************************)
\* an Err that stores the error at index 0 of the variant
Err_at_index_0(e) == [index |-> 0, ok |-> 0, err |-> e]

\* Result(T value): data_ holds alternative 0
Ok(v) == [index |-> 0, ok |-> v, err |-> ""]

\* Result(std::in_place_index_t<1>, E error): data_ holds alternative 1
Err(e) == [index |-> 1, ok |-> 0, err |-> e]

\* bool isok() / bool iserr(): data_.index() == 0 / == 1
isok(r) == r.index = 0
iserr(r) == r.index = 1

\* a / b of C++: the quotient truncated toward zero
TruncDiv(a, b) ==
    LET q == (IF a < 0 THEN -a ELSE a) \div (IF b < 0 THEN -b ELSE b)
    IN IF (a < 0) # (b < 0) THEN -q ELSE q

\* Result<i64> trydiv(i64 a, i64 b)
trydiv(a, b) ==
    IF b = 0 THEN Err("Division by zero") ELSE Ok(TruncDiv(a, b))

\* Result<i64> trymod(i64 a, i64 b)
trymod(a, b) ==
    IF b = 0 THEN Err("Modulo by zero") ELSE Ok(a - b * TruncDiv(a, b))

\* the errors the initial Result may carry
Errors == {"Division by zero", "Modulo by zero"}

\* callables int -> Result<int> handed to Result::then
RThenFs == {"tendivby", "tenmodby", "halve"}
\* callables str -> int handed to Result::otherwise
RecoverFs == {"ninetynine", "length"}

\* f(x) for a callable handed to Result::then:
\* x -> trydiv(10, x), x -> trymod(10, x), x -> trydiv(x, 2)
CallRThen(f, x) ==
    CASE f = "tendivby" -> trydiv(10, x)
      [] f = "tenmodby" -> trymod(10, x)
      [] f = "halve" -> trydiv(x, 2)

\* f(e) for a callable handed to Result::otherwise: the constant 99, or e.size()
CallRecover(f, e) ==
    CASE f = "ninetynine" -> 99
      [] f = "length" -> (CASE e = "Division by zero" -> 16
                            [] e = "Modulo by zero" -> 14
                            [] OTHER -> 0)

\* a map that applies f to the stored T whichever alternative is held
Result_map_ignores_err(r, f) ==
    [res |-> Ok(CallMap(f, r.ok)), log |-> <<<<f, r.ok>>>>]

\* auto map(F&& f) const
Result_map(r, f) ==
    IF isok(r)
    THEN [res |-> Ok(CallMap(f, r.ok)), log |-> <<<<f, r.ok>>>>]
    ELSE [res |-> Err(r.err), log |-> <<>>]

\* a then that replaces the error it passes through by a default-built E
Result_then_drops_error(r, f) ==
    IF isok(r)
    THEN [res |-> CallRThen(f, r.ok), log |-> <<<<f, r.ok>>>>]
    ELSE [res |-> Err(""), log |-> <<>>]

\* a then without the isok() test: f is handed the T storage of an Err too
Result_then_unchecked(r, f) ==
    [res |-> CallRThen(f, r.ok), log |-> <<<<f, r.ok>>>>]

\* auto then(F&& f) const
Result_then(r, f) ==
    IF isok(r)
    THEN [res |-> CallRThen(f, r.ok), log |-> <<<<f, r.ok>>>>]
    ELSE [res |-> Err(r.err), log |-> <<>>]

\* an otherwise that recovers even when the Result is Ok
Result_otherwise_always(r, f) ==
    [ret |-> CallRecover(f, r.err), log |-> <<<<f, r.err>>>>]

\* T otherwise(F&& f) const
Result_otherwise(r, f) ==
    IF isok(r)
    THEN [ret |-> r.ok, log |-> <<>>]
    ELSE [ret |-> CallRecover(f, r.err), log |-> <<<<f, r.err>>>>]

\* an unwrap that hands back a default T on Err instead of panicking
Result_unwrap_no_panic(r) ==
    [panic |-> FALSE, val |-> r.ok, msg |-> ""]

\* T unwrap() const: panics on Err
Result_unwrap(r) ==
    IF iserr(r)
    THEN [panic |-> TRUE, val |-> 0, msg |-> "called unwrap() on Err Result"]
    ELSE [panic |-> FALSE, val |-> r.ok, msg |-> ""]

\* E error() const: panics on Ok
Result_error(r) ==
    IF isok(r)
    THEN [panic |-> TRUE, err |-> "", msg |-> "called error() on Ok Result"]
    ELSE [panic |-> FALSE, err |-> r.err, msg |-> ""]

\* T unwrap(const char* msg) const: panics on Err with the caller's message
Result_unwrap_msg(r, msg) ==
    IF iserr(r)
    THEN [panic |-> TRUE, val |-> 0, msg |-> msg]
    ELSE [panic |-> FALSE, val |-> r.ok, msg |-> ""]

RNoCall == [op |-> "new", f |-> "", recv |-> Ok(0), res |-> Ok(0), ret |-> 0, rete |-> ""]

\* the chain has held no Err so far
NoErrYet == [seen |-> FALSE, err |-> ""]

\* the first error of the chain, once r is the value the chain holds
FirstErr(fe, r) ==
    IF ~fe.seen /\ iserr(r) THEN [seen |-> TRUE, err |-> r.err] ELSE fe

InitResult ==
    /\ r_cur \in {Ok(v) : v \in 0 .. MaxPayload} \cup {Err(e) : e \in Errors}
    /\ r_log = <<>>
    /\ r_last = RNoCall
    /\ r_len = 0
    /\ r_first_err = FirstErr(NoErrYet, r_cur)
    /\ r_late_calls = 0

RMap(f) ==
    LET m == Result_map(r_cur, f)
    IN /\ subject = "result"
       /\ panicked = ""
       /\ r_len < MaxChain
       /\ r_cur' = m.res
       /\ r_first_err' = FirstErr(r_first_err, m.res)
       /\ r_late_calls' = r_late_calls + (IF r_first_err.seen THEN Len(m.log) ELSE 0)
       /\ r_log' = m.log
       /\ r_last' = [op |-> "map", f |-> f, recv |-> r_cur, res |-> m.res, ret |-> 0, rete |-> ""]
       /\ r_len' = r_len + 1
       /\ UNCHANGED <<dsuVars, fenVars, subject, panicked, p_by, chainVars, getVars>>

RThen(f) ==
    LET t == Result_then(r_cur, f)
    IN /\ subject = "result"
       /\ panicked = ""
       /\ r_len < MaxChain
       /\ r_cur' = t.res
       /\ r_first_err' = FirstErr(r_first_err, t.res)
       /\ r_late_calls' = r_late_calls + (IF r_first_err.seen THEN Len(t.log) ELSE 0)
       /\ r_log' = t.log
       /\ r_last' = [op |-> "then", f |-> f, recv |-> r_cur, res |-> t.res, ret |-> 0, rete |-> ""]
       /\ r_len' = r_len + 1
       /\ UNCHANGED <<dsuVars, fenVars, subject, panicked, p_by, chainVars, getVars>>

ROtherwise(f) ==
    LET w == Result_otherwise(r_cur, f)
    IN /\ subject = "result"
       /\ panicked = ""
       /\ r_log' = w.log
       /\ r_last' = [op |-> "otherwise", f |-> f, recv |-> r_cur, res |-> r_cur,
                     ret |-> w.ret, rete |-> ""]
       /\ UNCHANGED <<r_cur, r_len, r_first_err, r_late_calls, dsuVars, fenVars, subject, panicked, p_by, chainVars, getVars>>

RUnwrap ==
    LET u == Result_unwrap(r_cur)
    IN /\ subject = "result"
       /\ panicked = ""
       /\ panicked' = (IF u.panic THEN panic(u.msg) ELSE "")
       /\ p_by' = (IF u.panic THEN "Result::unwrap" ELSE "")
       /\ r_log' = <<>>
       /\ r_last' = [op |-> "unwrap", f |-> "", recv |-> r_cur, res |-> r_cur,
                     ret |-> u.val, rete |-> ""]
       /\ UNCHANGED <<r_cur, r_len, r_first_err, r_late_calls, dsuVars, fenVars, subject, chainVars, getVars>>

RUnwrapMsg(msg) ==
    LET u == Result_unwrap_msg(r_cur, msg)
    IN /\ subject = "result"
       /\ panicked = ""
       /\ panicked' = (IF u.panic THEN panic(u.msg) ELSE "")
       /\ p_by' = (IF u.panic THEN "Result::unwrap(msg)" ELSE "")
       /\ r_log' = <<>>
       /\ r_last' = [op |-> "unwrap(msg)", f |-> msg, recv |-> r_cur, res |-> r_cur,
                     ret |-> u.val, rete |-> ""]
       /\ UNCHANGED <<r_cur, r_len, r_first_err, r_late_calls, dsuVars, fenVars, subject, chainVars, getVars>>

RError ==
    LET u == Result_error(r_cur)
    IN /\ subject = "result"
       /\ panicked = ""
       /\ panicked' = (IF u.panic THEN panic(u.msg) ELSE "")
       /\ p_by' = (IF u.panic THEN "Result::error" ELSE "")
       /\ r_log' = <<>>
       /\ r_last' = [op |-> "error", f |-> "", recv |-> r_cur, res |-> r_cur,
                     ret |-> 0, rete |-> u.err]
       /\ UNCHANGED <<r_cur, r_len, r_first_err, r_late_calls, dsuVars, fenVars, subject, chainVars, getVars>>

(***************************************************************************)
(* getat(c, idx)                                                           *)
(***************************************************************************)
\* *it after std::advance(it, idx); a position outside the container is recorded
ReadElem(c, idx) ==
    IF idx \in DOMAIN c
    THEN [res |-> Some(c[idx]), oob |-> FALSE]
    ELSE [res |-> Some(0), oob |-> TRUE]

\* a getat that does not wrap negative indices
getat_no_wrap(c, idx) ==
    LET sz == Cardinality(DOMAIN c)
    IN IF idx < 0 \/ idx >= sz
       THEN [res |-> None, oob |-> FALSE]
       ELSE ReadElem(c, idx)

\* auto getat(const Container& c, i64 idx) noexcept -> Option<value_type>
getat(c, idx) ==
    LET sz == Cardinality(DOMAIN c)
        i == IF idx < 0 THEN idx + sz ELSE idx
    IN IF i < 0 \/ i >= sz
       THEN [res |-> None, oob |-> FALSE]
       ELSE ReadElem(c, i)

\* the indices getat is driven with
GArgs == -(MaxLen + 2) .. MaxLen + 2

GNoCall == [op |-> "new", idx |-> 0, res |-> None, oob |-> FALSE]

InitGetat ==
    /\ \E sz \in 0 .. MaxLen : g_c \in [0 .. sz - 1 -> 1 .. MaxElem]
    /\ g_last = GNoCall

Getat(idx) ==
    LET g == getat(g_c, idx)
    IN /\ subject = "container"
       /\ panicked = ""
       /\ g_last' = [op |-> "getat", idx |-> idx, res |-> g.res, oob |-> g.oob]
       /\ UNCHANGED <<g_c, dsuVars, fenVars, subject, panicked, p_by, chainVars, resVars>>

(***************************************************************************)
(* Specifications: one per class, the other instances idle.                *)
(***************************************************************************)
IdleDSU ==
    /\ DSUInit(0)
    /\ part = <<>>
    /\ d_last = NoCall
    /\ d_pre = Pre
    /\ d_merges = 0

IdleFenwick ==
    /\ n = 0
    /\ tree = [k \in 0 .. 0 |-> 0]
    /\ vals = <<>>
    /\ f_oob = FALSE
    /\ f_last = FNoCall
    /\ f_pre = tree

IdleChain ==
    /\ o_cur = None
    /\ o_log = <<>>
    /\ o_last = ONoCall
    /\ o_len = 0
    /\ o_first = None
    /\ o_calls = 0

IdleResult ==
    /\ r_cur = Ok(0)
    /\ r_log = <<>>
    /\ r_last = RNoCall
    /\ r_len = 0
    /\ r_first_err = NoErrYet
    /\ r_late_calls = 0

IdleGetat ==
    /\ g_c = <<>>
    /\ g_last = GNoCall

IdleOption ==
    /\ IdleChain
    /\ IdleResult
    /\ IdleGetat
    /\ subject = "none"
    /\ panicked = ""
    /\ p_by = ""

InitSpecDSU == InitDSU /\ IdleFenwick /\ IdleOption
InitSpecFenwick == IdleDSU /\ InitFenwick /\ IdleOption
InitSpecOption ==
    /\ IdleDSU /\ IdleFenwick
    /\ InitOption /\ IdleResult /\ IdleGetat
    /\ subject = "option"
    /\ panicked = ""
    /\ p_by = ""

InitSpecSafe ==
    /\ IdleDSU /\ IdleFenwick
    /\ panicked = ""
    /\ p_by = ""
    /\ \/ subject = "option" /\ InitOption /\ IdleResult /\ IdleGetat
       \/ subject = "result" /\ IdleChain /\ InitResult /\ IdleGetat
       \/ subject = "container" /\ IdleChain /\ IdleResult /\ InitGetat

NextDSU ==
    \/ \E x \in DArgs : Find(x)
    \/ \E x, y \in DArgs : Unite(x, y)
    \/ \E x, y \in DArgs : Connected(x, y)
    \/ Components

NextFenwick ==
    \/ \E i \in FArgs, delta \in Deltas : Update(i, delta)
    \/ \E i \in FArgs : Query(i)
    \/ \E l, r \in FArgs : RangeQuery(l, r)

NextOption ==
    \/ \E f \in MapFs : Map(f)
    \/ \E f \in ThenFs : Then(f)
    \/ \E f \in OtherFs : Otherwise(f)
    \/ Unwrap
    \/ \E msg \in Msgs : UnwrapMsg(msg)

NextResult ==
    \/ \E f \in MapFs : RMap(f)
    \/ \E f \in RThenFs : RThen(f)
    \/ \E f \in RecoverFs : ROtherwise(f)
    \/ RUnwrap
    \/ \E msg \in Msgs : RUnwrapMsg(msg)
    \/ RError

NextSafe ==
    \/ NextOption
    \/ NextResult
    \/ \E idx \in GArgs : Getat(idx)
    \/ \E msg \in Msgs : Panic(msg)
    \/ \E msg \in Msgs \cup {TodoDefault} : Todo(msg)
    \/ \E msg \in Msgs \cup {UnreachableDefault} : Unreachable(msg)

SpecDSU == InitSpecDSU /\ [][NextDSU]_vars
SpecFenwick == InitSpecFenwick /\ [][NextFenwick]_vars
SpecOption == InitSpecOption /\ [][NextOption]_vars
SpecSafe == InitSpecSafe /\ [][NextSafe]_vars

(***************************************************************************)
(* Properties of DSU                                                       *)
(***************************************************************************)
Elems == DOMAIN parent
Invalid == {x \in DArgs : ~Valid(parent, x)}
Blocks(pt) == {pt[e] : e \in DOMAIN pt}

\* C1: connected(x, y) on valid x, y returns true exactly when x and y lie
\* in the same block of the abstract partition (n singletons, merged by each
\* unite with two valid arguments), whatever calls came before.
C1_ConnectedIsPartition ==
    /\ \A x, y \in Elems : connected(parent, x, y).ret <=> (part[x] = part[y])
    /\ (d_last.op = "connected" /\ d_last.x \in Elems /\ d_last.y \in Elems)
          => (d_last.retB <=> (part[d_last.x] = part[d_last.y]))

C1_Witness ==
    /\ d_last.op = "connected"
    /\ d_last.x \in Elems /\ d_last.y \in Elems /\ d_last.x # d_last.y
    /\ d_last.retB
    /\ Cardinality(Blocks(part)) = 2
    /\ Size(parent) = MaxDN

\* C5: after unite(a, b) with valid a and b, whatever it returned,
\* connected(a, b) returns true, and no later call separates two connected
\* elements.
C5_UniteConnectsForever ==
    /\ (d_last.op = "unite" /\ d_last.x \in Elems /\ d_last.y \in Elems)
          => connected(parent, d_last.x, d_last.y).ret
    /\ \A a, b \in Elems :
          connected(d_pre.parent, a, b).ret => connected(parent, a, b).ret

C5_Witness ==
    /\ d_last.op = "unite"
    /\ d_last.x \in Elems /\ d_last.y \in Elems /\ d_last.x # d_last.y
    /\ ~d_last.retB
    /\ parent[d_last.x] # d_last.y /\ parent[d_last.y] # d_last.x

\* C6: unite(x, y) returns false exactly when x or y is invalid or both were
\* already in the same set; otherwise it returns true and the sets are merged.
C6_UniteReturn ==
    d_last.op = "unite" =>
        LET x == d_last.x
            y == d_last.y
        IN /\ ~d_last.retB <=>
                 (x \notin Elems \/ y \notin Elems \/ d_pre.part[x] = d_pre.part[y])
           /\ d_last.retB =>
                 /\ ~connected(d_pre.parent, x, y).ret
                 /\ part[x] = part[y]
                 /\ connected(parent, x, y).ret

C6_Witness ==
    /\ d_last.op = "unite"
    /\ d_last.retB
    /\ Cardinality(Blocks(part)) = 1
    /\ Size(parent) = MaxDN

\* C7: with x invalid and y arbitrary, find(x) is -1, unite and connected
\* return false in either argument order (connected(x, x) too), and every
\* such call is defined on every reachable state.
C7_InvalidIndexSentinels ==
    /\ \A x \in Invalid :
          /\ find(parent, x).ret = -1
          /\ \A y \in DArgs :
                /\ ~unite(parent, rank_, x, y).ret
                /\ ~unite(parent, rank_, y, x).ret
                /\ ~connected(parent, x, y).ret
                /\ ~connected(parent, y, x).ret
    /\ (d_last.op = "find" /\ d_last.x \in Invalid) => d_last.retI = -1
    /\ (d_last.op \in {"unite", "connected"}
           /\ (d_last.x \in Invalid \/ d_last.y \in Invalid)) => ~d_last.retB

C7_Witness ==
    /\ d_last.op = "connected"
    /\ d_last.x = d_last.y /\ d_last.x \in Invalid
    /\ ~d_last.retB
    /\ \E e \in Elems : parent[e] # e

\* the showcase of examples/cheatsheet.cpp on DSU(5)
Showcase ==
    LET u1 == unite([i \in 0 .. 4 |-> i], [i \in 0 .. 4 |-> 0], 0, 1)
        u2 == unite(u1.parent, u1.rank_, 2, 3)
    IN unite(u2.parent, u2.rank_, 1, 2)

\* C8: components() returns the number of blocks of the partition, which is
\* the number of elements i with find(i) = i: n on a fresh DSU, 2 after the
\* showcase's three unions on DSU(5).
C8_ComponentsCountsBlocks ==
    /\ components(parent).ret = Cardinality(Blocks(part))
    /\ components(parent).ret = Cardinality({i \in Elems : find(parent, i).ret = i})
    /\ d_last.op = "components" => d_last.retI = Cardinality(Blocks(part))
    /\ d_last.op = "new" => components(parent).ret = Size(parent)
    /\ components(Showcase.parent).ret = 2

C8_Witness ==
    /\ d_last.op = "components"
    /\ d_last.retI = 2
    /\ Size(parent) = MaxDN

(***************************************************************************)
(* Properties of FenwickTree                                               *)
(***************************************************************************)
\* the sum of the logical values at the positions p of v with l <= p <= r
RECURSIVE BruteSum(_, _, _)
BruteSum(v, l, r) ==
    IF l > r
    THEN 0
    ELSE (IF l \in DOMAIN v THEN v[l] ELSE 0) + BruteSum(v, l + 1, r)

\* C2: rangequery(l, r) is the brute-force sum of the deltas applied at the
\* positions p with l <= p <= r and 0 <= p < n, for all l and r.
C2_RangeQueryIsBruteForce ==
    /\ \A l, r \in FArgs : rangequery(tree, n, l, r).sum = BruteSum(vals, l, r)
    /\ f_last.op = "rangequery" => f_last.ret = BruteSum(vals, f_last.i, f_last.j)

C2_Witness ==
    /\ f_last.op = "rangequery"
    /\ f_last.i > 0 /\ f_last.i < f_last.j /\ f_last.j < n
    /\ vals[f_last.i - 1] # 0
    /\ f_last.ret # 0
    /\ f_last.ret # query(tree, n, f_last.j).sum

\* C3: query(i) is the sum of the logical values at 0..i for 0 <= i < n,
\* 0 for i < 0, and query(n - 1) for i >= n.
C3_QueryIsPrefixSum ==
    /\ \A i \in FArgs :
          /\ (0 <= i /\ i < n) => query(tree, n, i).sum = BruteSum(vals, 0, i)
          /\ i < 0 => query(tree, n, i).sum = 0
          /\ i >= n => query(tree, n, i) = query(tree, n, n - 1)
    /\ f_last.op = "query" =>
          f_last.ret = (IF f_last.i < 0 THEN 0
                        ELSE IF f_last.i >= n THEN query(tree, n, n - 1).sum
                        ELSE BruteSum(vals, 0, f_last.i))

C3_Witness ==
    /\ f_last.op = "query"
    /\ f_last.i > n
    /\ f_last.ret # 0
    /\ n = 3

\* C4: update(i, delta) with i < 0 or i >= n changes nothing: the tree is
\* the same, no out-of-bounds access is made, and every query and
\* rangequery returns what it returned before.
C4_OutOfRangeUpdateIsNoOp ==
    /\ ~f_oob
    /\ (f_last.op = "update" /\ (f_last.i < 0 \/ f_last.i >= n)) =>
          /\ tree = f_pre
          /\ \A i \in FArgs : query(tree, n, i) = query(f_pre, n, i)
          /\ \A l, r \in FArgs : rangequery(tree, n, l, r) = rangequery(f_pre, n, l, r)

C4_Witness ==
    /\ f_last.op = "update"
    /\ f_last.i < 0
    /\ n = MaxFN
    /\ \A p \in DOMAIN vals : vals[p] # 0
    /\ ~f_oob

(***************************************************************************)
(* Properties of Option                                                    *)
(***************************************************************************)
\* C9: map(f) on Some(v) invokes f exactly once, with v, and returns
\* Some(f(v)); on an empty Option it returns an empty Option and f is not
\* invoked.
C9_OptionMap ==
    /\ o_last.op = "map" =>
          IF issome(o_last.recv)
          THEN /\ o_last.res = Some(CallMap(o_last.f, o_last.recv.val))
               /\ o_log = <<<<o_last.f, o_last.recv.val>>>>
          ELSE /\ isnone(o_last.res)
               /\ Len(o_log) = 0
    /\ \A f \in MapFs :
          LET m == Option_map(o_cur, f)
          IN /\ issome(m.res) <=> issome(o_cur)
             /\ Len(m.log) = (IF issome(o_cur) THEN 1 ELSE 0)

C9_Witness ==
    /\ o_last.op = "map"
    /\ issome(o_last.recv)
    /\ o_last.recv.val # 0
    /\ o_cur.val # o_last.recv.val
    /\ Len(o_log) = 1

\* C10: then(f) on Some(v) returns exactly the Option f(v) returns (empty
\* when f(v) is empty, so Some(5).then(x -> Some(x * 2)).unwrap() is 10); on
\* an empty Option it returns an empty Option and f is not invoked.
C10_OptionThen ==
    /\ o_last.op = "then" =>
          IF issome(o_last.recv)
          THEN /\ o_last.res = CallThen(o_last.f, o_last.recv.val)
               /\ o_log = <<<<o_last.f, o_last.recv.val>>>>
          ELSE /\ isnone(o_last.res)
               /\ Len(o_log) = 0
    /\ Option_unwrap(Option_then(Some(5), "somedouble").res) = [panic |-> FALSE, val |-> 10]
    /\ \A f \in ThenFs : isnone(Option_then(None, f).res) /\ Option_then(None, f).log = <<>>

C10_Witness ==
    /\ o_last.op = "then"
    /\ o_last.recv = Some(5)
    /\ o_last.f = "somedouble"
    /\ ~Option_unwrap(o_cur).panic
    /\ Option_unwrap(o_cur).val = 10

\* C11: otherwise(f) on Some(v) returns v and does not invoke f; on an empty
\* Option it invokes f exactly once and returns what f() returns.
C11_OptionOtherwise ==
    o_last.op = "otherwise" =>
        IF issome(o_last.recv)
        THEN /\ o_last.ret = o_last.recv.val
             /\ Len(o_log) = 0
        ELSE /\ o_last.ret = CallOther(o_last.f)
             /\ o_log = <<<<o_last.f>>>>

C11_Witness ==
    /\ o_last.op = "otherwise"
    /\ isnone(o_last.recv)
    /\ o_last.f = "fortytwo"
    /\ o_last.ret = 42
    /\ Len(o_log) = 1

(***************************************************************************)
(* Properties of the panic state, of the tags and of Result                *)
(***************************************************************************)
\* C12: unwrap() and unwrap(msg) on an empty Option, unwrap() and
\* unwrap(msg) on an Err Result and error() on an Ok Result do not return:
\* they enter the panic state, their diagnostic message printed, and no
\* operation runs after it; on the matching variant the same calls return
\* the stored payload and do not panic.
C12_WrongVariantPanics ==
    /\ o_last.op = "unwrap" =>
          IF isnone(o_last.recv)
          THEN /\ p_by = "Option::unwrap"
               /\ panicked = "[DAXE PANIC]: called unwrap() on None Option"
          ELSE p_by # "Option::unwrap" /\ o_last.ret = o_last.recv.val
    /\ o_last.op = "unwrap(msg)" =>
          IF isnone(o_last.recv)
          THEN /\ p_by = "Option::unwrap(msg)"
               /\ panicked = "[DAXE PANIC]: " \o o_last.f
          ELSE p_by # "Option::unwrap(msg)" /\ o_last.ret = o_last.recv.val
    /\ r_last.op = "unwrap" =>
          IF iserr(r_last.recv)
          THEN /\ p_by = "Result::unwrap"
               /\ panicked = "[DAXE PANIC]: called unwrap() on Err Result"
          ELSE p_by # "Result::unwrap" /\ r_last.ret = r_last.recv.ok
    /\ r_last.op = "unwrap(msg)" =>
          IF iserr(r_last.recv)
          THEN /\ p_by = "Result::unwrap(msg)"
               /\ panicked = "[DAXE PANIC]: " \o r_last.f
          ELSE p_by # "Result::unwrap(msg)" /\ r_last.ret = r_last.recv.ok
    /\ r_last.op = "error" =>
          IF isok(r_last.recv)
          THEN /\ p_by = "Result::error"
               /\ panicked = "[DAXE PANIC]: called error() on Ok Result"
          ELSE p_by # "Result::error" /\ r_last.rete = r_last.recv.err
    /\ p_by \in {"Option::unwrap", "Option::unwrap(msg)"} =>
          o_last.op \in {"unwrap", "unwrap(msg)"} /\ isnone(o_last.recv)
    /\ p_by \in {"Result::unwrap", "Result::unwrap(msg)"} =>
          r_last.op \in {"unwrap", "unwrap(msg)"} /\ iserr(r_last.recv)
    /\ p_by = "Result::error" => r_last.op = "error" /\ isok(r_last.recv)
    /\ (p_by # "") = (panicked # "")
    /\ panicked # "" => ~ENABLED NextSafe

C12_Witness ==
    /\ r_last.op = "unwrap"
    /\ r_last.recv = Err("Division by zero")
    /\ p_by = "Result::unwrap"
    /\ panicked = "[DAXE PANIC]: called unwrap() on Err Result"
    /\ ~ENABLED NextSafe

\* C13: every Option has exactly one of issome()/isnone() true, Some(v) is
\* some and None is none; every Result has exactly one of isok()/iserr()
\* true, Ok(v) is ok and Err(e) is err; the receivers and the values that
\* map and then produce keep this.
C13_TaggedUnion ==
    /\ \A o \in {o_cur, o_last.recv, o_last.res} : issome(o) # isnone(o)
    /\ \A r \in {r_cur, r_last.recv, r_last.res} : isok(r) # iserr(r)
    /\ \A v \in -MaxPayload .. MaxPayload : issome(Some(v)) /\ ~isnone(Some(v))
    /\ isnone(None) /\ ~issome(None)
    /\ \A v \in -MaxPayload .. MaxPayload : isok(Ok(v)) /\ ~iserr(Ok(v))
    /\ \A e \in Errors : iserr(Err(e)) /\ ~isok(Err(e))
    /\ \A f \in MapFs :
          /\ issome(Option_map(o_cur, f).res) # isnone(Option_map(o_cur, f).res)
          /\ isok(Result_map(r_cur, f).res) # iserr(Result_map(r_cur, f).res)
    /\ \A f \in ThenFs : issome(Option_then(o_cur, f).res) # isnone(Option_then(o_cur, f).res)
    /\ \A f \in RThenFs : isok(Result_then(r_cur, f).res) # iserr(Result_then(r_cur, f).res)

C13_Witness ==
    /\ r_last.op = "then"
    /\ isok(r_last.recv)
    /\ iserr(r_cur) /\ ~isok(r_cur)
    /\ r_cur = r_last.res

\* C14: Result::map(f) on Ok(v) invokes f exactly once, with v, and returns
\* Ok(f(v)); on Err(e) it returns Err(e) with the same error and f is not
\* invoked.
C14_ResultMap ==
    r_last.op = "map" =>
        IF isok(r_last.recv)
        THEN /\ r_last.res = Ok(CallMap(r_last.f, r_last.recv.ok))
             /\ r_log = <<<<r_last.f, r_last.recv.ok>>>>
        ELSE /\ iserr(r_last.res)
             /\ r_last.res.err = r_last.recv.err
             /\ Len(r_log) = 0

C14_Witness ==
    /\ r_last.op = "map"
    /\ r_last.recv = Err("Modulo by zero")
    /\ r_cur = Err("Modulo by zero")
    /\ Len(r_log) = 0

\* C15: Result::then(f) on Ok(v) returns exactly the Result f(v) returns, Ok
\* or Err; on Err(e) it returns Err(e) with the same error and f is not
\* invoked.
C15_ResultThen ==
    r_last.op = "then" =>
        IF isok(r_last.recv)
        THEN /\ r_last.res = CallRThen(r_last.f, r_last.recv.ok)
             /\ r_log = <<<<r_last.f, r_last.recv.ok>>>>
        ELSE /\ iserr(r_last.res)
             /\ r_last.res.err = r_last.recv.err
             /\ Len(r_log) = 0

C15_Witness ==
    /\ r_last.op = "then"
    /\ r_last.recv = Ok(0)
    /\ r_last.f = "tenmodby"
    /\ r_cur = Err("Modulo by zero")
    /\ Len(r_log) = 1

\* C16: Result::otherwise(f) on Ok(v) returns v and f is not invoked; on
\* Err(e) it invokes f exactly once, with e, and returns f(e).
C16_ResultOtherwise ==
    r_last.op = "otherwise" =>
        IF isok(r_last.recv)
        THEN /\ r_last.ret = r_last.recv.ok
             /\ Len(r_log) = 0
        ELSE /\ r_last.ret = CallRecover(r_last.f, r_last.recv.err)
             /\ r_log = <<<<r_last.f, r_last.recv.err>>>>

C16_Witness ==
    /\ r_last.op = "otherwise"
    /\ r_last.recv = Err("Division by zero")
    /\ r_last.f = "length"
    /\ r_last.ret = 16
    /\ Len(r_log) = 1

(***************************************************************************)
(* Properties of getat                                                     *)
(***************************************************************************)
\* C17: on a container of size n, getat(c, idx) returns Some(c[idx]) for
\* 0 <= idx < n, Some(c[idx + n]) for -n <= idx < 0, and None for every
\* other idx (all of them when n = 0); it never reads outside the container.
C17_GetAt ==
    g_last.op = "getat" =>
        LET sz == Cardinality(DOMAIN g_c)
            idx == g_last.idx
        IN /\ ~g_last.oob
           /\ (0 <= idx /\ idx < sz) => g_last.res = Some(g_c[idx])
           /\ (-sz <= idx /\ idx < 0) => g_last.res = Some(g_c[idx + sz])
           /\ (idx >= sz \/ idx < -sz) => g_last.res = None

C17_Witness ==
    /\ g_last.op = "getat"
    /\ Cardinality(DOMAIN g_c) = MaxLen
    /\ g_last.idx = -MaxLen
    /\ g_c[0] # g_c[MaxLen - 1]
    /\ g_last.res = Some(g_c[0])

(***************************************************************************)
(* Properties of the DSU forest                                            *)
(***************************************************************************)
\* the element reached from x by following k parent pointers of p
RECURSIVE HopN(_, _, _)
HopN(p, x, k) == IF k = 0 THEN x ELSE HopN(p, p[x], k - 1)

\* the root above x in p, and the elements on the way from x up to it
RootOf(p, x) == HopN(p, x, Size(p))
PathOf(p, x) == {HopN(p, x, k) : k \in 0 .. Size(p)}

\* C18: for x in [0, n), find(x) returns the unique root reached from x by
\* the parent pointers of the pre-call state; afterwards every element that
\* was on the path from x to that root has the root as parent, every other
\* parent entry is as before, and no rank changes.
C18_FindCompressesPath ==
    (d_last.op = "find" /\ Valid(parent, d_last.x)) =>
        LET p0 == d_pre.parent
            r == RootOf(p0, d_last.x)
            path == PathOf(p0, d_last.x)
        IN /\ p0[r] = r
           /\ \A e \in path : p0[e] = e => e = r
           /\ d_last.retI = r
           /\ \A e \in path : parent[e] = r
           /\ \A e \in Elems \ path : parent[e] = p0[e]
           /\ rank_ = d_pre.rank_

C18_Witness ==
    /\ d_last.op = "find"
    /\ Valid(parent, d_last.x)
    /\ d_pre.parent[d_last.x] # d_last.retI
    /\ parent # d_pre.parent
    /\ parent[d_last.x] = d_last.retI
    /\ \E e \in Elems \ PathOf(d_pre.parent, d_last.x) : parent[e] # e

\* C19: in every reachable state each parent[x] is an index in [0, n), the
\* only cycles of the parent relation are the self-loops at roots, and from
\* every element a root is reached in fewer than n steps.
C19_Forest ==
    /\ DOMAIN rank_ = Elems
    /\ \A x \in Elems : parent[x] \in Elems
    /\ \A x \in Elems : \A k \in 1 .. Size(parent) :
          HopN(parent, x, k) = x => parent[x] = x
    /\ \A x \in Elems : \E k \in 0 .. Size(parent) - 1 :
          LET r == HopN(parent, x, k) IN parent[r] = r

C19_Witness ==
    /\ Size(parent) = MaxDN
    /\ \E x \in Elems :
          /\ parent[x] # x
          /\ parent[parent[x]] # parent[x]
          /\ RootOf(parent, x) = parent[parent[x]]

\* C20: when unite(x, y) returns true, with rx and ry the roots of x and y
\* before the merge: rx goes under ry if rank[rx] < rank[ry], otherwise ry
\* goes under rx; rank[rx] grows by exactly 1 precisely when the two ranks
\* were equal, and no other rank entry changes.
C20_UnionByRank ==
    (d_last.op = "unite" /\ d_last.retB) =>
        LET p0 == d_pre.parent
            r0 == d_pre.rank_
            rx == RootOf(p0, d_last.x)
            ry == RootOf(p0, d_last.y)
        IN /\ rx # ry
           /\ IF r0[rx] < r0[ry]
              THEN parent[rx] = ry /\ parent[ry] = ry
              ELSE parent[ry] = rx /\ parent[rx] = rx
           /\ rank_[rx] = r0[rx] + (IF r0[rx] = r0[ry] THEN 1 ELSE 0)
           /\ \A e \in Elems \ {rx} : rank_[e] = r0[e]

C20_Witness ==
    /\ d_last.op = "unite"
    /\ d_last.retB
    /\ LET rx == RootOf(d_pre.parent, d_last.x)
           ry == RootOf(d_pre.parent, d_last.y)
       IN /\ d_pre.rank_[rx] < d_pre.rank_[ry]
          /\ parent[rx] = ry
          /\ rank_ = d_pre.rank_

(***************************************************************************)
(* Frame and algebraic properties of the DSU                               *)
(***************************************************************************)
\* the elements find walks over in a unite(x, y) call on p
UnitePaths(p, x, y) ==
    (IF Valid(p, x) THEN PathOf(p, x) ELSE {}) \cup (IF Valid(p, y) THEN PathOf(p, y) ELSE {})

\* C21 as stated: a unite(x, y) call that returns false leaves the parent and
\* rank arrays exactly as it found them.
C21_FailedUniteIsNoOp ==
    (d_last.op = "unite" /\ ~d_last.retB) =>
        /\ parent = d_pre.parent
        /\ rank_ = d_pre.rank_

\* C21 amended: a unite(x, y) call that returns false leaves the rank array
\* and the root of every element as it found them; a parent entry changes
\* only for an element on the path from a valid x or y to its root, and it
\* then holds that root (the path compression of find).
C21_FailedUniteKeepsSets ==
    (d_last.op = "unite" /\ ~d_last.retB) =>
        LET p0 == d_pre.parent
        IN /\ rank_ = d_pre.rank_
           /\ \A e \in Elems : RootOf(parent, e) = RootOf(p0, e)
           /\ \A e \in Elems :
                 \/ parent[e] = p0[e]
                 \/ /\ e \in UnitePaths(p0, d_last.x, d_last.y)
                    /\ parent[e] = RootOf(p0, e)

C21_Witness ==
    /\ d_last.op = "unite"
    /\ ~d_last.retB
    /\ Valid(parent, d_last.x)
    /\ Valid(parent, d_last.y)
    /\ parent # d_pre.parent
    /\ parent[d_last.x] = RootOf(d_pre.parent, d_last.x)

\* C22: find is idempotent: for every x, valid or not, in every reachable
\* state, a second find(x) right after a first returns the same value and
\* leaves the parent and rank arrays as the first call left them.
C22_FindIdempotent ==
    /\ \A x \in DArgs :
          LET f1 == find(parent, x)
              f2 == find(f1.parent, x)
          IN /\ f2.ret = f1.ret
             /\ f2.parent = f1.parent
    /\ d_last.op = "find" =>
          /\ find(parent, d_last.x).ret = d_last.retI
          /\ find(parent, d_last.x).parent = parent
          /\ rank_ = d_pre.rank_

C22_Witness ==
    /\ d_last.op = "find"
    /\ parent # d_pre.parent
    /\ find(parent, d_last.x).parent = parent
    /\ find(parent, d_last.x).ret = d_last.retI
    /\ d_last.retI # d_last.x

\* C23: components() called twice in a row returns the same count both
\* times in every reachable state, although the first call may rewrite
\* parent pointers.
C23_ComponentsTwice ==
    /\ LET c1 == components(parent)
           c2 == components(c1.parent)
       IN c2.ret = c1.ret
    /\ d_last.op = "components" => components(parent).ret = d_last.retI

C23_Witness ==
    /\ d_last.op = "components"
    /\ parent # d_pre.parent
    /\ components(parent).ret = d_last.retI
    /\ d_last.retI < Size(parent)

(***************************************************************************)
(* Structure of the Fenwick tree                                           *)
(***************************************************************************)
\* C24: after any sequence of update calls on FenwickTree(n), every cell
\* tree[k], k in 1..n, holds the sum of the logical values at positions
\* k - lowbit(k) through k - 1, and tree[0] stays 0.
C24_FenwickCells ==
    /\ DOMAIN tree = 0 .. n
    /\ tree[0] = 0
    /\ \A k \in 1 .. n : tree[k] = BruteSum(vals, k - lowbit(k), k - 1)

C24_Witness ==
    /\ n = MaxFN
    /\ f_last.op = "update"
    /\ \A p \in DOMAIN vals : vals[p] = MaxVal
    /\ tree[n] = lowbit(n) * MaxVal
    /\ \E k \in 1 .. n : lowbit(k) > 1 /\ tree[k] = lowbit(k) * MaxVal

(***************************************************************************)
(* Properties of whole chains of combinators                               *)
(***************************************************************************)
\* C25: in a chain of map and then calls that starts from an empty Option,
\* no supplied function is ever invoked and every intermediate result, and
\* so the final one, is empty.
C25_EmptyChainStaysEmpty ==
    isnone(o_first) =>
        /\ o_calls = 0
        /\ isnone(o_cur)
        /\ o_last.op \in {"map", "then"} =>
              /\ isnone(o_last.recv)
              /\ isnone(o_last.res)
              /\ Len(o_log) = 0

C25_Witness ==
    /\ subject = "option"
    /\ isnone(o_first)
    /\ o_len = MaxChain
    /\ o_last.op = "then"
    /\ o_last.f = "someplus5"
    /\ o_calls = 0
    /\ isnone(o_cur)

\* C26: in a chain of map and then calls on a Result, once the value is
\* Err(e), initially or because a then-step returned it, no later function
\* of the chain is invoked and every later result is Err with that same e.
C26_ErrShortCircuits ==
    /\ r_first_err.seen =>
          /\ iserr(r_cur)
          /\ r_cur.err = r_first_err.err
          /\ r_late_calls = 0
    /\ (r_last.op \in {"map", "then"} /\ iserr(r_last.recv)) =>
          /\ r_last.res = Err(r_last.recv.err)
          /\ Len(r_log) = 0
    /\ ~r_first_err.seen => isok(r_cur)

C26_Witness ==
    /\ subject = "result"
    /\ r_len = MaxChain
    /\ r_first_err = [seen |-> TRUE, err |-> "Modulo by zero"]
    /\ r_last.op = "then"
    /\ r_last.f = "tendivby"
    /\ r_last.recv = Err("Modulo by zero")
    /\ r_cur = Err("Modulo by zero")
    /\ r_late_calls = 0

(***************************************************************************)
(* Counting and rank properties of the DSU                                 *)
(***************************************************************************)
\* C27: after any sequence of operations on DSU(n), components() is n minus
\* the number of unite calls that returned true: a successful unite lowers
\* the count by exactly 1, every other call leaves it unchanged.
C27_ComponentsCountsMerges ==
    /\ components(parent).ret = Size(parent) - d_merges
    /\ d_last.op = "components" => d_last.retI = Size(parent) - d_merges
    /\ d_last.op # "new" =>
          components(d_pre.parent).ret - components(parent).ret
              = (IF d_last.op = "unite" /\ d_last.retB THEN 1 ELSE 0)

C27_Witness ==
    /\ Size(parent) = MaxDN
    /\ d_last.op = "components"
    /\ d_merges = 2
    /\ d_last.retI = MaxDN - 2
    /\ \E x \in Elems : parent[x] # x

\* the number of parent pointers between x and its root
Depth(p, x) ==
    CHOOSE k \in 0 .. Size(p) :
        /\ p[HopN(p, x, k)] = HopN(p, x, k)
        /\ \A j \in 0 .. k - 1 : p[HopN(p, x, j)] # HopN(p, x, j)

\* the elements of the set whose root is r
SetOf(p, r) == {e \in DOMAIN p : RootOf(p, e) = r}

\* C28: in every reachable state each non-root x has rank[x] <
\* rank[parent[x]], the set of each root r has at least 2^rank[r] elements,
\* and so no rank and no tree height exceeds floor(log2 n).
C28_UnionByRankInvariant ==
    /\ \A x \in Elems : parent[x] # x => rank_[x] < rank_[parent[x]]
    /\ \A r \in Elems : parent[r] = r => Cardinality(SetOf(parent, r)) >= 2 ^ rank_[r]
    /\ \A x \in Elems :
          /\ rank_[x] >= 0
          /\ 2 ^ rank_[x] <= Size(parent)
          /\ 2 ^ Depth(parent, x) <= Size(parent)
          /\ Depth(parent, x) <= rank_[RootOf(parent, x)]

C28_Witness ==
    /\ Size(parent) = MaxDN
    /\ \E x \in Elems :
          /\ Depth(parent, x) = 2
          /\ rank_[RootOf(parent, x)] = 2
          /\ rank_[parent[x]] = 1
          /\ rank_[x] = 0
          /\ Cardinality(SetOf(parent, RootOf(parent, x))) = 4

(***************************************************************************)
(* Index safety and loop progress of the Fenwick tree                      *)
(***************************************************************************)
\* the elements of a sequence
Range(sq) == {sq[j] : j \in DOMAIN sq}

\* C29: for FenwickTree(n), n >= 0, and any arguments, every array access of
\* update, query and rangequery uses an index k with 1 <= k <= n, and the
\* tree keeps its n + 1 cells.  (Every query and rangequery call is taken as
\* a step from every state, so f_last covers them; update is also evaluated
\* for the arguments its action does not take.)
C29_FenwickIndexSafety ==
    /\ DOMAIN tree = 0 .. n
    /\ ~f_oob
    /\ Range(f_last.steps) \subseteq 1 .. n
    /\ \A i \in FArgs :
          /\ Range(update(tree, n, i, 1).steps) \subseteq 1 .. n
          /\ DOMAIN update(tree, n, i, 1).tree = 0 .. n

C29_Witness ==
    /\ n = MaxFN
    /\ f_last.op = "rangequery"
    /\ f_last.i < 0
    /\ f_last.j >= n
    /\ n \in Range(f_last.steps)
    /\ Range(f_last.steps) \subseteq 1 .. n
    /\ \E p \in DOMAIN vals : vals[p] # 0
    /\ ~f_oob

\* the loop indices of an update: each at least 1 with a lowbit of at least
\* 1, each the previous one plus its lowbit, the last one stepping beyond sz
UpdateProgress(steps, sz) ==
    /\ \A j \in DOMAIN steps : steps[j] >= 1 /\ lowbit(steps[j]) >= 1
    /\ \A j \in 1 .. Len(steps) - 1 :
          /\ steps[j + 1] = steps[j] + lowbit(steps[j])
          /\ steps[j + 1] > steps[j]
    /\ Len(steps) > 0 => steps[Len(steps)] + lowbit(steps[Len(steps)]) > sz
    /\ Len(steps) <= sz

\* the loop indices of a query: each at least 1 with a lowbit of at least 1,
\* each the previous one minus its lowbit, the last one stepping to 0
QueryProgress(steps, sz) ==
    /\ \A j \in DOMAIN steps : steps[j] >= 1 /\ lowbit(steps[j]) >= 1
    /\ \A j \in 1 .. Len(steps) - 1 :
          /\ steps[j + 1] = steps[j] - lowbit(steps[j])
          /\ steps[j + 1] < steps[j]
    /\ Len(steps) > 0 => steps[Len(steps)] - lowbit(steps[Len(steps)]) = 0
    /\ Len(steps) <= sz

\* C30: every update(i, delta) and query(i) terminates, for every i and
\* every n >= 0: a loop body only runs with an index of at least 1, whose
\* lowbit is at least 1, so the index strictly increases beyond n (update)
\* or strictly decreases to 0 (query); index 0 is never a loop step.
C30_FenwickLoopsTerminate ==
    /\ ~f_last.hang
    /\ f_last.op = "update" => UpdateProgress(f_last.steps, n)
    /\ f_last.op = "query" => QueryProgress(f_last.steps, n)
    /\ \A i \in FArgs :
          /\ ~update(tree, n, i, 1).hang
          /\ UpdateProgress(update(tree, n, i, 1).steps, n)

C30_Witness ==
    /\ n = MaxFN
    /\ f_last.op = "update"
    /\ f_last.i = 0
    /\ Len(f_last.steps) >= 3
    /\ f_last.steps[1] = 1
    /\ ~f_last.hang

====
